---- MODULE Spec2Model ----
(***************************************************************************)
(* Fleet metrics server: the concurrent per-device store (store/store.go). *)
(*                                                                         *)
(* ServerStore.DeviceMap is a sync.Map from device ID to *DeviceData; each *)
(* DeviceData carries its own sync.RWMutex.  Goroutines call               *)
(* RecordHeartbeat, RecordUpload, GetStats and RegisterDevice.             *)
(*                                                                         *)
(* Modelling conventions                                                   *)
(*  - a time.Time is a record [sec, loc]: sec is the wall instant in whole *)
(*    seconds counted from the zero time (January 1, year 1, 00:00:00 UTC),*)
(*    loc is the identity of its *Location pointer (0 is nil, i.e. UTC).   *)
(*    Go compares map keys of type time.Time field by field, so two values *)
(*    of the same instant with different loc are different keys.           *)
(*  - a time.Duration is counted in seconds where it is the difference of  *)
(*    two time.Time values; all instants used lie within 292 years of one  *)
(*    another, so Time.Sub never saturates.                                *)
(*  - upload times are int64 values; the values used are far from the      *)
(*    int64 limits, so the sum in GetStats never wraps.                    *)
(*  - the float64 uptime is kept as the exact fraction num/den.            *)
(***************************************************************************)
EXTENDS Integers, Sequences, FiniteSets, TLC

\* ------------------------------------------------------------------ bounds
NProcs == 2
MaxCalls == 3
SeqMaxCalls == 5
HttpMaxCalls == 2

\* --------------------------------------------------------------- constants
Minute == 60

Procs == 1..NProcs
DeviceIDs == {"dev-1", "dev-2"}
SeqDeviceIDs == {"dev-1"}

Nil == 0

ErrNone == "nil"
ErrDeviceNotFound == "device not found"
ErrNoHeartbeats == "no heartbeats found for device"

\* ------------------------------------------------------------------ inputs
Time(s, l) == [sec |-> s, loc |-> l]
ZeroTime == Time(0, 0)

Times == {Time(0, 0), Time(60, 0)}
UploadValues == {5, 10}

SeqTimes ==
    {Time(s, 0) : s \in {-60, 0, 30, 60, 120, 300, 330}} \cup {Time(60, 1)}
SeqUploadValues == {-3, 5, 10}

VARIABLES
    DeviceMap,   \* ServerStore.DeviceMap: device ID -> instance (Nil: absent)
    heap,        \* the DeviceData instances stored so far: instance -> fields
    mu,          \* DeviceData.mu of each instance: [writer, readers]
    pc,          \* position of each goroutine
    call,        \* the arguments of the call each goroutine is in
    device,      \* the local variable `device` of each goroutine
    local,       \* what each goroutine has read of its device so far
    ret,         \* what each goroutine's last call returned
    issuedHB,    \* history: timestamps passed to RecordHeartbeat, per ID
    issuedUp,    \* history: number of RecordUpload calls, per ID
    hbReturned,  \* history: IDs for which a RecordHeartbeat has returned
    lastHB,      \* history: per instance, the last heartbeat applied to it
                 \* and how many times in a row it was applied
    calls        \* history: number of calls started

vars == <<DeviceMap, heap, mu, pc, call, device, local, ret,
          issuedHB, issuedUp, hbReturned, lastHB, calls>>

\* ------------------------------------------------------ time.Time methods
IsZero(t) == t.sec = 0
Before(t, u) == t.sec < u.sec
After(t, u) == t.sec > u.sec
Sub(t, u) == t.sec - u.sec

\* Go's integer division and float64 -> int conversion truncate toward zero.
GoDiv(a, b) ==
    IF a >= 0 THEN a \div b ELSE -((-a) \div b)

\* --------------------------------------------------------------- DeviceData
NewDeviceData ==
    [Heartbeats |-> {}, UploadTimes |-> <<>>,
     FirstHeartbeat |-> ZeroTime, LastHeartbeat |-> ZeroTime]

NewMutex == [writer |-> Nil, readers |-> {}]

\* history: no heartbeat applied yet
NoHeartbeatYet == [sentAt |-> {}, times |-> 0]

NoCall == [op |-> "none"]
NoRet == [op |-> "none"]
NoLocal == [op |-> "none"]

Init ==
    /\ DeviceMap = [id \in DeviceIDs |-> Nil]
    /\ heap = <<>>
    /\ mu = <<>>
    /\ pc = [p \in Procs |-> "idle"]
    /\ call = [p \in Procs |-> NoCall]
    /\ device = [p \in Procs |-> Nil]
    /\ local = [p \in Procs |-> NoLocal]
    /\ ret = [p \in Procs |-> NoRet]
    /\ issuedHB = [id \in DeviceIDs |-> {}]
    /\ issuedUp = [id \in DeviceIDs |-> 0]
    /\ hbReturned = {}
    /\ lastHB = <<>>
    /\ calls = 0


\* ---------------------------------------------------------- ServerStore
\* s.DeviceMap.LoadOrStore(deviceID, &DeviceData{}): one atomic step of
\* sync.Map.  The instance of the goroutine p is stored only when the ID has
\* none; the goroutine gets the stored one in device[p].
\* variant: Store in place of LoadOrStore
getOrCreateDevice_Store(p, deviceID) ==
    LET i == Len(heap) + 1 IN
    /\ heap' = Append(heap, NewDeviceData)
    /\ mu' = Append(mu, NewMutex)
    /\ lastHB' = Append(lastHB, NoHeartbeatYet)
    /\ DeviceMap' = [DeviceMap EXCEPT ![deviceID] = i]
    /\ device' = [device EXCEPT ![p] = i]

getOrCreateDevice(p, deviceID) ==
    IF DeviceMap[deviceID] # Nil
    THEN /\ device' = [device EXCEPT ![p] = DeviceMap[deviceID]]
         /\ UNCHANGED <<DeviceMap, heap, mu, lastHB>>
    ELSE LET i == Len(heap) + 1 IN
         /\ heap' = Append(heap, NewDeviceData)
         /\ mu' = Append(mu, NewMutex)
         /\ lastHB' = Append(lastHB, NoHeartbeatYet)
         /\ DeviceMap' = [DeviceMap EXCEPT ![deviceID] = i]
         /\ device' = [device EXCEPT ![p] = i]

\* sync.RWMutex: Lock waits until no reader and no writer holds the mutex,
\* RLock until no writer holds it.  (That a waiting writer holds back new
\* readers is left out: it removes interleavings, it adds none.)
\* variant: a Lock that does not wait
Lock_NoWait(p, i) ==
    mu' = [mu EXCEPT ![i].writer = p]

\* variant: one lock for the whole store
Lock_Global(p, i) ==
    /\ \A j \in DOMAIN mu : mu[j].writer = Nil /\ mu[j].readers = {}
    /\ mu' = [mu EXCEPT ![i].writer = p]

\* variant: a Lock that waits for the writer only
Lock_IgnoreReaders(p, i) ==
    /\ mu[i].writer = Nil
    /\ mu' = [mu EXCEPT ![i].writer = p]

Lock(p, i) ==
    /\ mu[i].writer = Nil
    /\ mu[i].readers = {}
    /\ mu' = [mu EXCEPT ![i].writer = p]

\* variant: the deferred Unlock left out
Unlock_Forgotten(p, i) ==
    mu' = mu

Unlock(p, i) ==
    mu' = [mu EXCEPT ![i].writer = Nil]

\* variant: an RLock that does not wait for the writer
RLock_NoWait(p, i) ==
    mu' = [mu EXCEPT ![i].readers = @ \cup {p}]

RLock(p, i) ==
    /\ mu[i].writer = Nil
    /\ mu' = [mu EXCEPT ![i].readers = @ \cup {p}]

RUnlock(p, i) ==
    mu' = [mu EXCEPT ![i].readers = @ \ {p}]

\* ------------------------------------------------------- RecordHeartbeat
\* The body of RecordHeartbeat under the device lock, as a function of the
\* device's fields.
\* variant: every call inserts under a key of its own
AddHeartbeat_FreshKey(d, sentAt) ==
    LET key == Time(sentAt.sec, sentAt.loc + Cardinality(d.Heartbeats) + 1) IN
    [d EXCEPT
        !.Heartbeats = @ \cup {key},
        !.FirstHeartbeat =
            IF IsZero(@) \/ Before(sentAt, @) THEN sentAt ELSE @,
        !.LastHeartbeat =
            IF IsZero(@) \/ After(sentAt, @) THEN sentAt ELSE @]

\* variant: the LastHeartbeat update as the else branch of the
\* FirstHeartbeat update
AddHeartbeat_ElseIf(d, sentAt) ==
    LET first == IsZero(d.FirstHeartbeat) \/ Before(sentAt, d.FirstHeartbeat) IN
    [d EXCEPT
        !.Heartbeats = @ \cup {sentAt},
        !.FirstHeartbeat = IF first THEN sentAt ELSE @,
        !.LastHeartbeat =
            IF ~first /\ (IsZero(@) \/ After(sentAt, @)) THEN sentAt ELSE @]

AddHeartbeat(d, sentAt) ==
    [d EXCEPT
        !.Heartbeats = @ \cup {sentAt},
        !.FirstHeartbeat =
            IF IsZero(@) \/ Before(sentAt, @) THEN sentAt ELSE @,
        !.LastHeartbeat =
            IF IsZero(@) \/ After(sentAt, @) THEN sentAt ELSE @]

\* device := s.getOrCreateDevice(deviceID)
RecordHeartbeat(p, deviceID, sentAt) ==
    /\ pc[p] = "idle"
    /\ getOrCreateDevice(p, deviceID)
    /\ pc' = [pc EXCEPT ![p] = "hb_lock"]
    /\ call' = [call EXCEPT ![p] =
                  [op |-> "RecordHeartbeat", id |-> deviceID, sentAt |-> sentAt]]
    /\ ret' = [ret EXCEPT ![p] = NoRet]
    /\ issuedHB' = [issuedHB EXCEPT ![deviceID] = @ \cup {sentAt}]
    /\ calls' = calls + 1
    /\ UNCHANGED <<local, issuedUp, hbReturned>>

\* device.mu.Lock()
RecordHeartbeat_Lock(p) ==
    /\ pc[p] = "hb_lock"
    /\ Lock(p, device[p])
    /\ pc' = [pc EXCEPT ![p] = "hb_body"]
    /\ UNCHANGED <<DeviceMap, heap, call, device, local, ret,
                   issuedHB, issuedUp, hbReturned, lastHB, calls>>

\* the body reads the device's fields ...
RecordHeartbeat_Load(p) ==
    /\ pc[p] = "hb_body"
    /\ local' = [local EXCEPT ![p] = heap[device[p]]]
    /\ pc' = [pc EXCEPT ![p] = "hb_store"]
    /\ UNCHANGED <<DeviceMap, heap, mu, call, device, ret,
                   issuedHB, issuedUp, hbReturned, lastHB, calls>>

\* ... and writes the heartbeat map and the two bounds; then the deferred
\* device.mu.Unlock() and the return
RecordHeartbeat_Store(p) ==
    LET d == AddHeartbeat(local[p], call[p].sentAt) IN
    /\ pc[p] = "hb_store"
    /\ heap' = [heap EXCEPT ![device[p]] =
                  [@ EXCEPT !.Heartbeats = d.Heartbeats,
                            !.FirstHeartbeat = d.FirstHeartbeat,
                            !.LastHeartbeat = d.LastHeartbeat]]
    /\ Unlock(p, device[p])
    /\ lastHB' = [lastHB EXCEPT ![device[p]] =
                    IF call[p].sentAt \in @.sentAt
                    THEN [@ EXCEPT !.times = @ + 1]
                    ELSE [sentAt |-> {call[p].sentAt}, times |-> 1]]
    /\ hbReturned' = hbReturned \cup {call[p].id}
    /\ pc' = [pc EXCEPT ![p] = "idle"]
    /\ local' = [local EXCEPT ![p] = NoLocal]
    /\ ret' = [ret EXCEPT ![p] = [op |-> "RecordHeartbeat", id |-> call[p].id]]
    /\ UNCHANGED <<DeviceMap, call, device, issuedHB, issuedUp, calls>>

\* ---------------------------------------------------------- RecordUpload
AddUpload(d, uploadTime) ==
    [d EXCEPT !.UploadTimes = Append(@, uploadTime)]

RecordUpload(p, deviceID, sentAt, uploadTime) ==
    /\ pc[p] = "idle"
    /\ getOrCreateDevice(p, deviceID)
    /\ pc' = [pc EXCEPT ![p] = "up_lock"]
    /\ call' = [call EXCEPT ![p] =
                  [op |-> "RecordUpload", id |-> deviceID, sentAt |-> sentAt,
                   uploadTime |-> uploadTime]]
    /\ ret' = [ret EXCEPT ![p] = NoRet]
    /\ issuedUp' = [issuedUp EXCEPT ![deviceID] = @ + 1]
    /\ calls' = calls + 1
    /\ UNCHANGED <<local, issuedHB, hbReturned>>

RecordUpload_Lock(p) ==
    /\ pc[p] = "up_lock"
    /\ Lock(p, device[p])
    /\ pc' = [pc EXCEPT ![p] = "up_body"]
    /\ UNCHANGED <<DeviceMap, heap, call, device, local, ret,
                   issuedHB, issuedUp, hbReturned, lastHB, calls>>

\* append reads the slice ...
RecordUpload_Load(p) ==
    /\ pc[p] = "up_body"
    /\ local' = [local EXCEPT ![p] = heap[device[p]]]
    /\ pc' = [pc EXCEPT ![p] = "up_store"]
    /\ UNCHANGED <<DeviceMap, heap, mu, call, device, ret,
                   issuedHB, issuedUp, hbReturned, lastHB, calls>>

\* ... and the result is assigned to device.UploadTimes; then the deferred
\* device.mu.Unlock() and the return
RecordUpload_Store(p) ==
    LET d == AddUpload(local[p], call[p].uploadTime) IN
    /\ pc[p] = "up_store"
    /\ heap' = [heap EXCEPT ![device[p]].UploadTimes = d.UploadTimes]
    /\ Unlock(p, device[p])
    /\ pc' = [pc EXCEPT ![p] = "idle"]
    /\ local' = [local EXCEPT ![p] = NoLocal]
    /\ ret' = [ret EXCEPT ![p] = [op |-> "RecordUpload", id |-> call[p].id]]
    /\ UNCHANGED <<DeviceMap, call, device,
                   issuedHB, issuedUp, hbReturned, lastHB, calls>>

\* -------------------------------------------------------------- GetStats
\* The float64 uptime, as the fraction num/den of a percentage.
Percent(n, d) == [num |-> n, den |-> d]
Hundred == Percent(100, 1)

\* len(device.Heartbeats) == 0
\* variant: "no heartbeat yet" read off the FirstHeartbeat sentinel
NoHeartbeats_ByFirst(d) == IsZero(d.FirstHeartbeat)

NoHeartbeats(d) == Cardinality(d.Heartbeats) = 0

\* 1. Calculate Uptime
\* variant: without the cap at 100
Uptime_NoCap(d) ==
    LET minutesDiff == Sub(d.LastHeartbeat, d.FirstHeartbeat)
        numMinutes == GoDiv(minutesDiff, Minute)
    IN  IF minutesDiff > 0 /\ numMinutes > 0
        THEN Percent(Cardinality(d.Heartbeats) * 100, numMinutes)
        ELSE Hundred

\* variant: the default is 0 instead of 100
Uptime_DefaultZero(d) ==
    LET minutesDiff == Sub(d.LastHeartbeat, d.FirstHeartbeat)
        numMinutes == GoDiv(minutesDiff, Minute)
        count == Cardinality(d.Heartbeats)
    IN  IF minutesDiff > 0 /\ numMinutes > 0
        THEN IF count * 100 > 100 * numMinutes
             THEN Hundred
             ELSE Percent(count * 100, numMinutes)
        ELSE Percent(0, 1)

\* minutesDiff is a float64 number of minutes: it is positive exactly when the
\* duration is, and int(minutesDiff) is the number of whole minutes in it.
Uptime(d) ==
    LET minutesDiff == Sub(d.LastHeartbeat, d.FirstHeartbeat)
        numMinutes == GoDiv(minutesDiff, Minute)
        count == Cardinality(d.Heartbeats)
    IN  IF minutesDiff > 0 /\ numMinutes > 0
        THEN IF count * 100 > 100 * numMinutes
             THEN Hundred
             ELSE Percent(count * 100, numMinutes)
        ELSE Hundred

\* 2. Calculate Average Upload Time
RECURSIVE SumSeq(_)
SumSeq(q) == IF q = <<>> THEN 0 ELSE Head(q) + SumSeq(Tail(q))

\* variant: rounded to the nearest instead of truncated
AverageUpload_Rounded(d) ==
    IF Len(d.UploadTimes) > 0
    THEN GoDiv(2 * SumSeq(d.UploadTimes) + Len(d.UploadTimes),
               2 * Len(d.UploadTimes))
    ELSE 0

AverageUpload(d) ==
    IF Len(d.UploadTimes) > 0
    THEN GoDiv(SumSeq(d.UploadTimes), Len(d.UploadTimes))
    ELSE 0

\* variant: without the check for a device without heartbeats
Stats_NoCheck(d) ==
    [uptime |-> Uptime(d), avgUpload |-> AverageUpload(d), err |-> ErrNone]

\* What GetStats returns for a device it found, as a function of the
\* device's fields.
Stats(d) ==
    IF NoHeartbeats(d)
    THEN [uptime |-> Percent(0, 1), avgUpload |-> 0, err |-> ErrNoHeartbeats]
    ELSE [uptime |-> Uptime(d), avgUpload |-> AverageUpload(d), err |-> ErrNone]

GetStatsRet(id, r) ==
    [op |-> "GetStats", id |-> id,
     uptime |-> r.uptime, avgUpload |-> r.avgUpload, err |-> r.err]

\* variant: getOrCreateDevice in place of DeviceMap.Load
GetStats_Creating(p, deviceID) ==
    /\ pc[p] = "idle"
    /\ call' = [call EXCEPT ![p] =
                  [op |-> "GetStats", id |-> deviceID,
                   afterHeartbeat |-> deviceID \in hbReturned]]
    /\ calls' = calls + 1
    /\ getOrCreateDevice(p, deviceID)
    /\ pc' = [pc EXCEPT ![p] = "gs_rlock"]
    /\ ret' = [ret EXCEPT ![p] = NoRet]
    /\ UNCHANGED <<local, issuedHB, issuedUp, hbReturned>>

\* value, ok := s.DeviceMap.Load(deviceID)
GetStats(p, deviceID) ==
    /\ pc[p] = "idle"
    /\ call' = [call EXCEPT ![p] =
                  [op |-> "GetStats", id |-> deviceID,
                   afterHeartbeat |-> deviceID \in hbReturned]]
    /\ calls' = calls + 1
    /\ IF DeviceMap[deviceID] = Nil
       THEN /\ ret' = [ret EXCEPT ![p] =
                         GetStatsRet(deviceID,
                             [uptime |-> Percent(0, 1), avgUpload |-> 0,
                              err |-> ErrDeviceNotFound])]
            /\ UNCHANGED <<pc, device>>
       ELSE /\ device' = [device EXCEPT ![p] = DeviceMap[deviceID]]
            /\ pc' = [pc EXCEPT ![p] = "gs_rlock"]
            /\ ret' = [ret EXCEPT ![p] = NoRet]
    /\ UNCHANGED <<DeviceMap, heap, mu, local,
                   issuedHB, issuedUp, hbReturned, lastHB>>

\* device.mu.RLock()
GetStats_RLock(p) ==
    /\ pc[p] = "gs_rlock"
    /\ RLock(p, device[p])
    /\ pc' = [pc EXCEPT ![p] = "gs_read"]
    /\ UNCHANGED <<DeviceMap, heap, call, device, local, ret,
                   issuedHB, issuedUp, hbReturned, lastHB, calls>>

\* the heartbeat check and part 1 of the body: the early return on a device
\* without heartbeats, else the uptime
GetStats_Uptime(p) ==
    LET d == heap[device[p]] IN
    /\ pc[p] = "gs_read"
    /\ IF NoHeartbeats(d)
       THEN /\ ret' = [ret EXCEPT ![p] = GetStatsRet(call[p].id, Stats(d))]
            /\ pc' = [pc EXCEPT ![p] = "gs_runlock"]
            /\ UNCHANGED local
       ELSE /\ local' = [local EXCEPT ![p] = [uptime |-> Uptime(d)]]
            /\ pc' = [pc EXCEPT ![p] = "gs_avg"]
            /\ UNCHANGED ret
    /\ UNCHANGED <<DeviceMap, heap, mu, call, device,
                   issuedHB, issuedUp, hbReturned, lastHB, calls>>

\* part 2 of the body and the return statement: the results are set, the
\* deferred RUnlock has not run yet
GetStats_Average(p) ==
    LET d == heap[device[p]] IN
    /\ pc[p] = "gs_avg"
    /\ ret' = [ret EXCEPT ![p] =
                 GetStatsRet(call[p].id,
                     [uptime |-> local[p].uptime,
                      avgUpload |-> AverageUpload(d), err |-> ErrNone])]
    /\ local' = [local EXCEPT ![p] = NoLocal]
    /\ pc' = [pc EXCEPT ![p] = "gs_runlock"]
    /\ UNCHANGED <<DeviceMap, heap, mu, call, device,
                   issuedHB, issuedUp, hbReturned, lastHB, calls>>

\* the deferred device.mu.RUnlock()
GetStats_RUnlock(p) ==
    /\ pc[p] = "gs_runlock"
    /\ RUnlock(p, device[p])
    /\ pc' = [pc EXCEPT ![p] = "idle"]
    /\ UNCHANGED <<DeviceMap, heap, call, device, local, ret,
                   issuedHB, issuedUp, hbReturned, lastHB, calls>>

\* -------------------------------------------------------- RegisterDevice
\* RegisterDevice is called by main's LoadDevices and by the tests; its body
\* is not part of store.go as given.  It is modelled from its specification:
\* it ensures that a DeviceData exists for the ID and leaves an existing one
\* alone, which is what getOrCreateDevice does.
RegisterDevice(p, deviceID) ==
    /\ pc[p] = "idle"
    /\ getOrCreateDevice(p, deviceID)
    /\ call' = [call EXCEPT ![p] =
                  [op |-> "RegisterDevice", id |-> deviceID,
                   hadData |-> IF DeviceMap[deviceID] = Nil THEN FALSE
                               ELSE heap[DeviceMap[deviceID]] # NewDeviceData]]
    /\ ret' = [ret EXCEPT ![p] = [op |-> "RegisterDevice", id |-> deviceID]]
    /\ calls' = calls + 1
    /\ UNCHANGED <<pc, local, issuedHB, issuedUp, hbReturned>>

\* ------------------------------------------------------- specifications
\* A step of goroutine p inside a call it has started.
Step(p) ==
    \/ RecordHeartbeat_Lock(p)
    \/ RecordHeartbeat_Load(p)
    \/ RecordHeartbeat_Store(p)
    \/ RecordUpload_Lock(p)
    \/ RecordUpload_Load(p)
    \/ RecordUpload_Store(p)
    \/ GetStats_RLock(p)
    \/ GetStats_Uptime(p)
    \/ GetStats_Average(p)
    \/ GetStats_RUnlock(p)

\* Goroutines calling the store concurrently.
Next ==
    \/ \E p \in Procs, id \in DeviceIDs, t \in Times :
          calls < MaxCalls /\ RecordHeartbeat(p, id, t)
    \/ \E p \in Procs, id \in DeviceIDs, u \in UploadValues :
          calls < MaxCalls /\ RecordUpload(p, id, ZeroTime, u)
    \/ \E p \in Procs, id \in DeviceIDs :
          calls < MaxCalls /\ GetStats(p, id)
    \/ \E p \in Procs, id \in DeviceIDs :
          calls < MaxCalls /\ RegisterDevice(p, id)
    \/ \E p \in Procs : Step(p)

Spec == Init /\ [][Next]_vars

\* The Go scheduler runs every goroutine that can run: a step of a call
\* that stays possible is taken.
FairSpec == Spec /\ \A p \in Procs : WF_vars(Step(p))

\* One goroutine calling the store, over a wider range of inputs.
SeqNext ==
    \/ \E id \in SeqDeviceIDs, t \in SeqTimes :
          calls < SeqMaxCalls /\ RecordHeartbeat(1, id, t)
    \/ \E id \in SeqDeviceIDs, u \in SeqUploadValues :
          calls < SeqMaxCalls /\ RecordUpload(1, id, ZeroTime, u)
    \/ \E id \in SeqDeviceIDs :
          calls < SeqMaxCalls /\ GetStats(1, id)
    \/ \E id \in SeqDeviceIDs :
          calls < SeqMaxCalls /\ RegisterDevice(1, id)
    \/ Step(1)

SeqSpec == Init /\ [][SeqNext]_vars

\* ---------------------------------------------------------- HTTP handlers
\* The device whitelist (devices.csv) that main loads at startup.
Whitelist == {"dev-1"}

\* Request inputs: the path value device_id, the method, the decoded body
\* (ok is whether json Decode succeeded; a body without sent_at decodes to
\* the zero time).
HttpIDs == DeviceIDs \cup {""}
Methods == {"POST", "GET"}
\* A sent_at text is an RFC 3339 timestamp: its instant and its zone, the
\* letter Z or a numeric offset in seconds.
SentAtTexts ==
    {[sec |-> 0, z |-> TRUE, offset |-> 0],
     [sec |-> 60, z |-> TRUE, offset |-> 0],
     [sec |-> 60, z |-> FALSE, offset |-> 7200],
     [sec |-> 60, z |-> FALSE, offset |-> 19800]}
HeartbeatBodies ==
    {[ok |-> TRUE, sent_at |-> x] : x \in SentAtTexts} \cup {[ok |-> FALSE]}
UploadBodies ==
    {[ok |-> TRUE, sentAt |-> ZeroTime, uploadTime |-> u] : u \in UploadValues}
        \cup {[ok |-> FALSE]}

StatusOK == 200
StatusNoContent == 204
StatusNotFound == 404
StatusMethodNotAllowed == 405
StatusInternalServerError == 500

\* The *Location of a decoded time.Time: nil for UTC, &localLoc for the
\* zone of the server (taken to run in UTC), and what FixedZone returns for
\* any other offset.
UTC == 0
Local == 1
LocalOffset == 0

\* time.FixedZone("", offset): for a whole number of hours from -12 to +14
\* the one Location kept for that hour, else a newly allocated Location
\* (fresh is its address).
Hour == 3600
hoursBeforeUTC == 12
hoursAfterUTC == 14
unnamedFixedZones(hour) == Local + 1 + hour + hoursBeforeUTC
FirstFresh == unnamedFixedZones(hoursAfterUTC) + 1
FixedZone(offset, fresh) ==
    LET hour == GoDiv(offset, Hour) IN
    IF -hoursBeforeUTC <= hour /\ hour <= hoursAfterUTC /\ hour * Hour = offset
    THEN unnamedFixedZones(hour)
    ELSE fresh

\* json Decode of sent_at (time.Time.UnmarshalJSON): "Z" gives UTC, the
\* offset of the local zone gives Local, any other offset FixedZone's
\* Location.
UnmarshalJSON(x, fresh) ==
    IF x.z THEN Time(x.sec, UTC)
    ELSE IF x.offset = LocalOffset THEN Time(x.sec, Local)
    ELSE Time(x.sec, FixedZone(x.offset, fresh))

\* writeError(w, status, msg) before any store call: the handler returns.
writeError(p, handler, deviceID, status) ==
    /\ call' = [call EXCEPT ![p] = [op |-> handler, id |-> deviceID]]
    /\ ret' = [ret EXCEPT ![p] =
                 [op |-> handler, id |-> deviceID, status |-> status]]
    /\ calls' = calls + 1
    /\ UNCHANGED <<DeviceMap, heap, mu, pc, device, local,
                   issuedHB, issuedUp, hbReturned, lastHB>>

\* variant: no return after the decode error, the zero-valued request
\* goes on to the store
HandleHeartbeat_NoReturn(p, deviceID, body) ==
    /\ pc[p] = "idle"
    /\ IF deviceID = ""
       THEN writeError(p, "HandleHeartbeat", deviceID, StatusNotFound)
       ELSE IF ~body.ok
       THEN RecordHeartbeat(p, deviceID, ZeroTime)
       ELSE RecordHeartbeat(p, deviceID,
                            UnmarshalJSON(body.sent_at, FirstFresh + calls))

\* HandleHeartbeat: POST /api/v1/devices/{device_id}/heartbeat
HandleHeartbeat(p, deviceID, body) ==
    /\ pc[p] = "idle"
    /\ IF deviceID = ""
       THEN writeError(p, "HandleHeartbeat", deviceID, StatusNotFound)
       ELSE IF ~body.ok
       THEN writeError(p, "HandleHeartbeat", deviceID,
                       StatusInternalServerError)
       ELSE RecordHeartbeat(p, deviceID,
                            UnmarshalJSON(body.sent_at, FirstFresh + calls))

\* handlePostStats: POST /api/v1/devices/{device_id}/stats
handlePostStats(p, deviceID, body) ==
    IF ~body.ok
    THEN writeError(p, "HandleStats", deviceID, StatusInternalServerError)
    ELSE RecordUpload(p, deviceID, body.sentAt, body.uploadTime)

\* handleGetStats: GET /api/v1/devices/{device_id}/stats
handleGetStats(p, deviceID) == GetStats(p, deviceID)

\* HandleStats: POST and GET /api/v1/devices/{device_id}/stats
HandleStats(p, method, deviceID, body) ==
    /\ pc[p] = "idle"
    /\ IF deviceID = ""
       THEN writeError(p, "HandleStats", deviceID, StatusNotFound)
       ELSE CASE method = "POST" -> handlePostStats(p, deviceID, body)
              [] method = "GET" -> handleGetStats(p, deviceID)
              [] OTHER -> writeError(p, "HandleStats", deviceID,
                                     StatusMethodNotAllowed)

\* The status a handler has written once its store call has returned r
\* (0: nothing written yet).
HttpStatus(r) ==
    CASE r.op \in {"HandleHeartbeat", "HandleStats"} -> r.status
      [] r.op \in {"RecordHeartbeat", "RecordUpload"} -> StatusNoContent
      [] r.op = "GetStats" ->
            IF r.err = ErrNone THEN StatusOK
            ELSE IF r.err \in {ErrDeviceNotFound, ErrNoHeartbeats}
            THEN StatusNotFound
            ELSE StatusInternalServerError
      [] OTHER -> 0

\* The state main leaves before it serves: NewStore, then LoadDevices has
\* registered every ID of the whitelist.
HttpInit ==
    /\ DeviceMap = [id \in DeviceIDs |-> IF id \in Whitelist THEN 1 ELSE Nil]
    /\ heap = <<NewDeviceData>>
    /\ mu = <<NewMutex>>
    /\ pc = [p \in Procs |-> "idle"]
    /\ call = [p \in Procs |-> NoCall]
    /\ device = [p \in Procs |-> Nil]
    /\ local = [p \in Procs |-> NoLocal]
    /\ ret = [p \in Procs |-> NoRet]
    /\ issuedHB = [id \in DeviceIDs |-> {}]
    /\ issuedUp = [id \in DeviceIDs |-> 0]
    /\ hbReturned = {}
    /\ lastHB = <<NoHeartbeatYet>>
    /\ calls = 0

\* The server: requests handled concurrently.
HttpNext ==
    \/ \E p \in Procs, id \in HttpIDs, b \in HeartbeatBodies :
          calls < HttpMaxCalls /\ HandleHeartbeat(p, id, b)
    \/ \E p \in Procs, m \in Methods, id \in HttpIDs, b \in UploadBodies :
          calls < HttpMaxCalls /\ HandleStats(p, m, id, b)
    \/ \E p \in Procs : Step(p)

HttpSpec == HttpInit /\ [][HttpNext]_vars

\* ============================================================== claims
AllReturned == \A p \in Procs : pc[p] = "idle"

InWrite(p) ==
    pc[p] \in {"hb_lock", "hb_body", "hb_store", "up_lock", "up_body", "up_store"}
InCall(p) == pc[p] # "idle"

\* A goroutine whose GetStats has computed its results from the device it
\* still holds the read lock of.
Returning(p) == pc[p] = "gs_runlock"

Secs(H) == {t.sec : t \in H}
MinSec(H) == CHOOSE s \in Secs(H) : \A x \in Secs(H) : s <= x
MaxSec(H) == CHOOSE s \in Secs(H) : \A x \in Secs(H) : s >= x

\* fractions: a = b, and a <= b, for positive denominators
SamePercent(a, b) == a.num * b.den = b.num * a.den

\* C1: once all calls have returned, each device's heartbeat set is exactly
\* the set of distinct timestamps passed to RecordHeartbeat for its ID, and
\* its upload sequence has as many entries as RecordUpload was called for it.
C1_NoLostWrite ==
    AllReturned =>
        \A id \in DeviceIDs :
            (issuedHB[id] # {} \/ issuedUp[id] > 0) =>
                /\ DeviceMap[id] # Nil
                /\ heap[DeviceMap[id]].Heartbeats = issuedHB[id]
                /\ Len(heap[DeviceMap[id]].UploadTimes) = issuedUp[id]

\* Two heartbeats and an upload for one ID have all returned, the last two
\* calls from different goroutines.
C1_Witness ==
    /\ AllReturned
    /\ \E id \in DeviceIDs :
          /\ Cardinality(issuedHB[id]) = 2
          /\ issuedUp[id] = 1
          /\ \E p, q \in Procs :
                /\ ret[p] = [op |-> "RecordHeartbeat", id |-> id]
                /\ ret[q] = [op |-> "RecordUpload", id |-> id]

\* C2: every DeviceData ever stored is the one the directory holds for
\* exactly one ID, and every goroutine inside a call works on the instance
\* the directory holds for the ID it was called with.
C2_OneInstance ==
    /\ \A i \in DOMAIN heap :
          Cardinality({id \in DeviceIDs : DeviceMap[id] = i}) = 1
    /\ \A p \in Procs : InCall(p) => device[p] = DeviceMap[call[p].id]

\* Two goroutines made first contact with the same ID before either wrote.
C2_Witness ==
    \E p, q \in Procs :
        /\ p # q
        /\ InWrite(p) /\ InWrite(q)
        /\ call[p].id = call[q].id
        /\ device[p] = device[q]
        /\ heap[device[p]] = NewDeviceData

\* C3: applying RecordHeartbeat with the timestamp of the heartbeat applied
\* just before it to the same device changes nothing of the device: not the
\* heartbeat set, not the bounds, not what GetStats computes.
C3_Idempotent ==
    [][\A p \in Procs :
          (/\ RecordHeartbeat_Store(p)
           /\ call[p].sentAt \in lastHB[device[p]].sentAt)
          => /\ heap'[device[p]] = heap[device[p]]
             /\ Stats(heap'[device[p]]) = Stats(heap[device[p]])]_vars

\* The same timestamp was recorded three times in a row.
C3_Witness ==
    \E i \in DOMAIN lastHB : lastHB[i].times >= 3

\* The uptime the formula gives for a heartbeat set H: the number of its
\* distinct timestamps over the whole minutes between its earliest and its
\* latest one, as a percentage, at most 100.
ElapsedMinutes(H) == (MaxSec(H) - MinSec(H)) \div Minute

FormulaUptime(H) ==
    IF Cardinality(H) * 100 > 100 * ElapsedMinutes(H)
    THEN Hundred
    ELSE Percent(Cardinality(H) * 100, ElapsedMinutes(H))

\* C4: a successful GetStats on a device whose earliest and latest heartbeat
\* are at least one whole minute apart returns
\* min(100, distinct heartbeats / elapsed whole minutes * 100).
C4_UptimeFormula ==
    \A p \in Procs :
        LET H == heap[device[p]].Heartbeats IN
        (Returning(p) /\ ret[p].err = ErrNone /\ ElapsedMinutes(H) >= 1)
            => SamePercent(ret[p].uptime, FormulaUptime(H))

\* C5: a successful GetStats on a device whose heartbeats all lie less than
\* one whole minute apart returns an uptime of exactly 100.
C5_SubMinute ==
    \A p \in Procs :
        LET H == heap[device[p]].Heartbeats IN
        (Returning(p) /\ ret[p].err = ErrNone /\ MaxSec(H) - MinSec(H) < Minute)
            => ret[p].uptime = Hundred

\* GetStats returned for a device with three heartbeats at two instants
\* less than a minute apart.
C5_Witness ==
    \E p \in Procs :
        LET H == heap[device[p]].Heartbeats IN
        /\ Returning(p) /\ ret[p].err = ErrNone
        /\ Cardinality(H) >= 3
        /\ MaxSec(H) - MinSec(H) > 0
        /\ MaxSec(H) - MinSec(H) < Minute
        /\ ret[p].uptime = Hundred

\* C6: the uptime of every successful GetStats lies in [0, 100].
C6_UptimeRange ==
    \A p \in Procs :
        (ret[p].op = "GetStats" /\ ret[p].err = ErrNone)
            => /\ ret[p].uptime.den > 0
               /\ ret[p].uptime.num >= 0
               /\ ret[p].uptime.num <= 100 * ret[p].uptime.den

\* GetStats returned 100 for a device with more heartbeats than whole
\* minutes between its bounds, at least one minute apart.
C6_Witness ==
    \E p \in Procs :
        LET d == heap[device[p]] IN
        /\ Returning(p) /\ ret[p].err = ErrNone
        /\ Sub(d.LastHeartbeat, d.FirstHeartbeat) >= Minute
        /\ Cardinality(d.Heartbeats) >
               Sub(d.LastHeartbeat, d.FirstHeartbeat) \div Minute
        /\ ret[p].uptime = Hundred

\* C7: the average upload of a successful GetStats is the sum of the
\* device's upload times divided by their number, the remainder dropped
\* (the quotient is the one nearer to zero), and 0 when there is no upload.
C7_AverageUpload ==
    \A p \in Procs :
        LET q == heap[device[p]].UploadTimes
            n == Len(q)
            rem == SumSeq(q) - ret[p].avgUpload * n
        IN  (Returning(p) /\ ret[p].err = ErrNone) =>
                IF n = 0
                THEN ret[p].avgUpload = 0
                ELSE /\ -n < rem /\ rem < n
                     /\ rem > 0 => SumSeq(q) > 0
                     /\ rem < 0 => SumSeq(q) < 0

\* GetStats returned 7 for a device with the uploads 5 and 10.
C7_Witness ==
    \E p \in Procs :
        /\ Returning(p) /\ ret[p].err = ErrNone
        /\ heap[device[p]].UploadTimes = <<5, 10>>
        /\ ret[p].avgUpload = 7

\* C8: a GetStats call returns the device-not-found error exactly when the
\* directory has nothing for the ID; when it found a device it returns the
\* no-heartbeats error exactly when the device has no heartbeat, and no
\* error otherwise.
C8_Errors ==
    [][\A p \in Procs :
          /\ \A id \in DeviceIDs :
                GetStats(p, id) =>
                    ((DeviceMap[id] = Nil) <=>
                        (ret'[p].op = "GetStats" /\ ret'[p].err = ErrDeviceNotFound))
          /\ (pc[p] \in {"gs_read", "gs_avg"} /\ pc'[p] = "gs_runlock") =>
                /\ device[p] = DeviceMap[call[p].id]
                /\ ret'[p].err = IF heap[device[p]].Heartbeats = {}
                                 THEN ErrNoHeartbeats ELSE ErrNone]_vars

\* GetStats returned the no-heartbeats error for a device that has uploads.
C8_Witness ==
    \E p \in Procs :
        /\ Returning(p)
        /\ ret[p].err = ErrNoHeartbeats
        /\ heap[device[p]].Heartbeats = {}
        /\ Len(heap[device[p]].UploadTimes) > 0

\* C9: a GetStats(id) that starts after a RecordHeartbeat(id, t) has
\* returned succeeds.
C9_StatsAfterHeartbeat ==
    \A p \in Procs :
        (/\ ret[p].op = "GetStats"
         /\ call[p].op = "GetStats"
         /\ call[p].afterHeartbeat)
            => ret[p].err = ErrNone

\* GetStats succeeded on a device whose only heartbeat is the zero time.
C9_Witness ==
    \E p \in Procs :
        /\ Returning(p)
        /\ call[p].afterHeartbeat
        /\ heap[device[p]].Heartbeats = {ZeroTime}
        /\ ret[p].err = ErrNone

\* C10: RegisterDevice on an ID that has a DeviceData leaves the directory
\* and every DeviceData as they are, and a write in progress goes to the
\* DeviceData the directory holds.
C10_RegisterKeepsData ==
    [][\A p \in Procs :
          /\ \A id \in DeviceIDs :
                (RegisterDevice(p, id) /\ DeviceMap[id] # Nil) =>
                    /\ DeviceMap' = DeviceMap
                    /\ heap' = heap
          /\ (RecordHeartbeat_Store(p) \/ RecordUpload_Store(p)) =>
                device[p] = DeviceMap[call[p].id]]_vars

\* A device with recorded data was registered again while another
\* goroutine was in a write to it.
C10_Witness ==
    \E p, q \in Procs :
        /\ ret[p].op = "RegisterDevice"
        /\ call[p].op = "RegisterDevice"
        /\ call[p].hadData
        /\ InWrite(q)
        /\ call[q].id = call[p].id
        /\ heap[DeviceMap[call[p].id]].Heartbeats # {}

\* The goroutine p has answered a request for deviceID.
Answered(p, deviceID) ==
    /\ pc[p] = "idle"
    /\ call[p].op # "none"
    /\ call[p].id = deviceID
    /\ HttpStatus(ret[p]) # 0

\* C11: a request for a device ID that is not in the whitelist is answered
\* 404, and the directory never holds a DeviceData for such an ID.
C11_Whitelist ==
    \A id \in HttpIDs \ Whitelist :
        /\ id \in DeviceIDs => DeviceMap[id] = Nil
        /\ \A p \in Procs :
              Answered(p, id) => HttpStatus(ret[p]) = StatusNotFound

\* The goroutine p holds the lock of the instance i.
Holds(p, i) == mu[i].writer = p \/ p \in mu[i].readers

\* The goroutine q is inside a call and has no step it can take.
Blocked(q) == InCall(q) /\ ~ENABLED Step(q)

\* Every change to an instance or its lock is a step of a goroutine whose
\* call is for the ID bound to that instance.
OnlyOwnDevice ==
    \A i \in DOMAIN heap :
        (heap'[i] # heap[i] \/ mu'[i] # mu[i]) =>
            \E p \in Procs :
                /\ InCall(p)
                /\ device[p] = i
                /\ DeviceMap[call[p].id] = i
                /\ pc'[p] # pc[p]
                /\ \A q \in Procs \ {p} : pc'[q] = pc[q]

\* A goroutine that cannot move waits for a goroutine that holds the lock
\* of the same device.
BlockedBySameDevice ==
    \A q \in Procs :
        Blocked(q) =>
            \E r \in Procs \ {q} :
                InCall(r) /\ device[r] = device[q] /\ Holds(r, device[q])

\* C12: an operation on one device changes and locks that device only, and
\* is held up by nothing but the lock of its own device.
C12_Isolation == [][OnlyOwnDevice]_vars /\ []BlockedBySameDevice

\* Two goroutines hold the locks of two different devices at once, one of
\* them as writer.
C12_Witness ==
    \E p, q \in Procs :
        /\ InCall(p) /\ InCall(q)
        /\ device[p] # device[q]
        /\ mu[device[p]].writer = p
        /\ Holds(q, device[q])

\* C13: under fair scheduling every started RecordHeartbeat, RecordUpload
\* and GetStats call returns, and the goroutine then holds no device lock.
C13_Returns ==
    \A p \in Procs :
        InCall(p) ~> (pc[p] = "idle" /\ \A i \in DOMAIN mu : ~Holds(p, i))

\* A writer waits for the lock of a device while another goroutine holds it.
C13_Witness ==
    \E p, q \in Procs :
        /\ p # q
        /\ pc[q] \in {"hb_lock", "up_lock"}
        /\ device[p] = device[q]
        /\ InCall(p) /\ Holds(p, device[q])

\* C15: a device with a heartbeat has the earliest timestamp of its
\* heartbeat set as FirstHeartbeat and the latest one as LastHeartbeat, the
\* zero time included.
C15_FirstLastAreMinMax ==
    \A i \in DOMAIN heap :
        heap[i].Heartbeats # {} =>
            /\ heap[i].FirstHeartbeat.sec = MinSec(heap[i].Heartbeats)
            /\ heap[i].LastHeartbeat.sec = MaxSec(heap[i].Heartbeats)

\* C16: a device with a heartbeat has FirstHeartbeat no later than
\* LastHeartbeat, so the span GetStats divides by is not negative.
C16_FirstBeforeLast ==
    \A i \in DOMAIN heap :
        heap[i].Heartbeats # {} =>
            /\ ~After(heap[i].FirstHeartbeat, heap[i].LastHeartbeat)
            /\ Sub(heap[i].LastHeartbeat, heap[i].FirstHeartbeat) >= 0

\* A device holds heartbeats before, at and after the zero time, and its
\* bounds are apart.
C16_Witness ==
    \E i \in DOMAIN heap :
        /\ ZeroTime \in heap[i].Heartbeats
        /\ \E t, u \in heap[i].Heartbeats : t.sec < 0 /\ u.sec > 0
        /\ Before(heap[i].FirstHeartbeat, heap[i].LastHeartbeat)

\* The earliest timestamp of a non-empty set (the location breaks ties).
Earliest(H) ==
    CHOOSE t \in H :
        \A u \in H : t.sec < u.sec \/ (t.sec = u.sec /\ t.loc <= u.loc)

\* The device after the heartbeats of H applied in ascending order to d.
RECURSIVE ApplyAscending(_, _)
ApplyAscending(d, H) ==
    IF H = {} THEN d
    ELSE ApplyAscending(AddHeartbeat(d, Earliest(H)), H \ {Earliest(H)})

\* The device after the uploads of q applied in reverse order to d.
RECURSIVE ApplyReversed(_, _)
ApplyReversed(d, q) ==
    IF q = <<>> THEN d
    ELSE ApplyReversed(AddUpload(d, q[Len(q)]), SubSeq(q, 1, Len(q) - 1))

\* The calls issued for the ID bound to instance i, applied in one fixed
\* order: heartbeats ascending, then uploads last to first.
Reordered(id, i) ==
    ApplyReversed(ApplyAscending(NewDeviceData, issuedHB[id]),
                  heap[i].UploadTimes)

SameStats(a, b) ==
    /\ a.err = b.err
    /\ a.err = ErrNone =>
          SamePercent(a.uptime, b.uptime) /\ a.avgUpload = b.avgUpload

\* C14: when the calls issued for a device have all returned, the device's
\* heartbeat set and bounds and the GetStats result are those of the same
\* calls applied in another order.
C14_OrderIndependent ==
    AllReturned =>
        \A id \in DeviceIDs :
            DeviceMap[id] # Nil =>
                LET d == heap[DeviceMap[id]]
                    r == Reordered(id, DeviceMap[id])
                IN /\ d.Heartbeats = r.Heartbeats
                   /\ d.FirstHeartbeat.sec = r.FirstHeartbeat.sec
                   /\ d.LastHeartbeat.sec = r.LastHeartbeat.sec
                   /\ SameStats(Stats(d), Stats(r))

\* The sequence q is the beginning of the sequence r.
IsPrefix(q, r) == Len(q) <= Len(r) /\ SubSeq(r, 1, Len(q)) = q

\* C17: in every step an ID of the directory stays bound to its instance,
\* no instance loses a heartbeat, and every upload sequence keeps its
\* elements in place.
C17_HistoryGrows ==
    [][/\ \A id \in DeviceIDs :
             DeviceMap[id] # Nil => DeviceMap'[id] = DeviceMap[id]
       /\ \A i \in DOMAIN heap :
             /\ i \in DOMAIN heap'
             /\ Cardinality(heap'[i].Heartbeats)
                    >= Cardinality(heap[i].Heartbeats)
             /\ IsPrefix(heap[i].UploadTimes, heap'[i].UploadTimes)]_vars

\* A device has grown to two heartbeats and an upload.
C17_Witness ==
    \E i \in DOMAIN heap :
        /\ Cardinality(heap[i].Heartbeats) >= 2
        /\ Len(heap[i].UploadTimes) >= 1

\* The goroutine is between Lock and Unlock, or between RLock and RUnlock.
InWriteSection(p) == pc[p] \in {"hb_body", "hb_store", "up_body", "up_store"}
InReadSection(p) == pc[p] \in {"gs_read", "gs_avg", "gs_runlock"}

\* C18: while a goroutine is in a write section of a device, no other
\* goroutine is in a write section or a read section of that device.
C18_Exclusion ==
    \A p, q \in Procs :
        (p # q /\ InWriteSection(p) /\ device[q] = device[p]) =>
            ~InWriteSection(q) /\ ~InReadSection(q)

\* Two GetStats calls are in the read section of one device at once.
C18_Witness ==
    \E p, q \in Procs :
        /\ p # q
        /\ InReadSection(p) /\ InReadSection(q)
        /\ device[p] = device[q]

\* C19: the results of a GetStats call are those of the one device state
\* that it holds the read lock of: the uptime it has computed, and then the
\* pair it returns, are the uptime and the pair of the state at its return.
C19_Snapshot ==
    \A p \in Procs :
        LET s == Stats(heap[device[p]]) IN
        /\ pc[p] = "gs_avg" => local[p].uptime = s.uptime
        /\ Returning(p) =>
              /\ ret[p].err = s.err
              /\ ret[p].uptime = s.uptime
              /\ ret[p].avgUpload = s.avgUpload

\* A GetStats call is about to return the results of a device while a
\* writer waits for the lock of that device.
C19_Witness ==
    \E p, q \in Procs :
        /\ Returning(p) /\ ret[p].err = ErrNone
        /\ pc[q] \in {"hb_lock", "up_lock"}
        /\ device[q] = device[p]

\* A step of a GetStats call of the goroutine p.
GetStatsStep(p) ==
    \/ \E id \in DeviceIDs : GetStats(p, id)
    \/ GetStats_RLock(p)
    \/ GetStats_Uptime(p)
    \/ GetStats_Average(p)
    \/ GetStats_RUnlock(p)

\* C20: no step of a GetStats call changes the directory or a device, and
\* the ID of a call that returned device-not-found is still unbound.
C20_GetStatsReadOnly ==
    [][\A p \in Procs :
          GetStatsStep(p) =>
              /\ DeviceMap' = DeviceMap
              /\ heap' = heap
              /\ (ret'[p].op = "GetStats" /\ ret'[p].err = ErrDeviceNotFound)
                    => DeviceMap'[ret'[p].id] = Nil]_vars

\* GetStats has reported device-not-found twice for an ID, which is still
\* unbound.
C20_Witness ==
    \E p, q \in Procs : \E id \in DeviceIDs :
        /\ p # q
        /\ DeviceMap[id] = Nil
        /\ \A r \in {p, q} :
              /\ pc[r] = "idle"
              /\ ret[r] = GetStatsRet(id, [uptime |-> Percent(0, 1),
                                           avgUpload |-> 0,
                                           err |-> ErrDeviceNotFound])

\* The heartbeat set H with one timestamp kept for each instant.
OnePerInstant(H) == {Time(s, 0) : s \in Secs(H)}

\* C21: heartbeats that denote the same instant count once, whatever their
\* representation: a device has as many distinct heartbeats as instants,
\* and the uptime of recording each instant once.
C21_SameInstantOnce ==
    \A i \in DOMAIN heap :
        LET d == heap[i] IN
        /\ Cardinality(d.Heartbeats) = Cardinality(Secs(d.Heartbeats))
        /\ d.Heartbeats # {} =>
              SamePercent(Uptime(d),
                  Uptime([d EXCEPT !.Heartbeats = OnePerInstant(@)]))

\* A body that json Decode fails on.
Undecodable == [ok |-> FALSE]

\* The goroutine p handles a heartbeat or upload request for deviceID whose
\* body cannot be decoded.
UndecodableRequest(p, deviceID) ==
    \/ HandleHeartbeat(p, deviceID, Undecodable)
    \/ HandleStats(p, "POST", deviceID, Undecodable)

\* C22: a heartbeat or upload request with an undecodable body is answered
\* with the error status 500 and leaves the directory, every device and
\* every lock as they were: its device ID is bound to what it was bound to.
C22_UndecodableBody ==
    [][\A p \in Procs : \A id \in DeviceIDs :
          UndecodableRequest(p, id) =>
              /\ HttpStatus(ret'[p]) = StatusInternalServerError
              /\ pc'[p] = "idle"
              /\ DeviceMap' = DeviceMap
              /\ heap' = heap
              /\ mu' = mu
              /\ issuedHB' = issuedHB /\ issuedUp' = issuedUp]_vars

\* A request with an undecodable body for an unbound ID was answered 500,
\* and the ID is still unbound while the whitelisted device holds data.
C22_Witness ==
    \E p \in Procs : \E id \in DeviceIDs \ Whitelist :
        /\ pc[p] = "idle"
        /\ ret[p].op \in {"HandleHeartbeat", "HandleStats"}
        /\ ret[p].id = id
        /\ ret[p].status = StatusInternalServerError
        /\ DeviceMap[id] = Nil
        /\ \E w \in Whitelist : heap[DeviceMap[w]].Heartbeats # {}

====
